---- MODULE Spec2Model ----
(***************************************************************************)
(* The ClearLinux provisioner of libmachine/provision/clearlinux.go: the   *)
(* provisioning sequence (Provision), the package-action translation and   *)
(* lock-retried execution (Package), and the generation of the daemon      *)
(* options file (GenerateDockerOptions), driven against a scripted remote  *)
(* executor.                                                               *)
(*                                                                         *)
(* Strings are sequences of one-character strings, so that formatting,     *)
(* concatenation and substring search are computed, not assumed.           *)
(***************************************************************************)
EXTENDS Integers, Sequences, FiniteSets, TLC

(***************************************************************************)
(* Bounds of the model.                                                    *)
(***************************************************************************)
\* The lock-retry executor's ceiling of attempts (scaled down).
RetryCeiling == 3

\* How many GenerateDockerOptions calls a caller makes on one instance.
MaxCalls == 2

(***************************************************************************)
(* String literals of the source, as character sequences.                  *)
(***************************************************************************)
StrSwupd ==
    <<"s", "w", "u", "p", "d">>

StrBundleAdd ==
    <<"b", "u", "n", "d", "l", "e", "-", "a", "d", "d">>

StrBundleRemove ==
    <<"b", "u", "n", "d", "l", "e", "-", "r", "e", "m", "o", "v", "e">>

StrDocker ==
    <<"d", "o", "c", "k", "e", "r">>

StrContainersBasic ==
    <<"c", "o", "n", "t", "a", "i", "n", "e", "r", "s", "-", "b", "a", "s",
      "i", "c">>

StrNginx ==
    <<"n", "g", "i", "n", "x">>

StrCurl ==
    <<"c", "u", "r", "l">>

StrDockerd ==
    <<"d", "o", "c", "k", "e", "r", "d">>

StrSetHostnameCmd ==
    <<"s", "u", "d", "o", " ", "h", "o", "s", "t", "n", "a", "m", "e", "c",
      "t", "l", " ", "s", "e", "t", "-", "h", "o", "s", "t", "n", "a", "m",
      "e", " ">>

StrDaemon ==
    <<"d", "a", "e", "m", "o", "n">>

StrThreshold ==
    <<"1", ".", "1", "2", ".", "0">>

StrProviderEq ==
    <<"p", "r", "o", "v", "i", "d", "e", "r", "=">>

TmplHead ==
    <<"[", "S", "e", "r", "v", "i", "c", "e", "]", "\n", "E", "n", "v", "i",
      "r", "o", "n", "m", "e", "n", "t", "=", "T", "M", "P", "D", "I", "R",
      "=", "/", "v", "a", "r", "/", "t", "m", "p", "\n", "E", "x", "e", "c",
      "S", "t", "a", "r", "t", "=", "\n", "E", "x", "e", "c", "S", "t", "a",
      "r", "t", "=", "/", "u", "s", "r", "/", "b", "i", "n", "/", "d", "o",
      "c", "k", "e", "r", "d", " ">>

TmplHost ==
    <<" ", "-", "-", "h", "o", "s", "t", "=", "u", "n", "i", "x", ":", "/",
      "/", "/", "v", "a", "r", "/", "r", "u", "n", "/", "d", "o", "c", "k",
      "e", "r", ".", "s", "o", "c", "k", " ", "-", "-", "h", "o", "s", "t",
      "=", "t", "c", "p", ":", "/", "/", "0", ".", "0", ".", "0", ".", "0",
      ":">>

TmplCaCert ==
    <<" ", "-", "-", "t", "l", "s", "v", "e", "r", "i", "f", "y", " ", "-",
      "-", "t", "l", "s", "c", "a", "c", "e", "r", "t", " ">>

TmplCert ==
    <<" ", "-", "-", "t", "l", "s", "c", "e", "r", "t", " ">>

TmplKey ==
    <<" ", "-", "-", "t", "l", "s", "k", "e", "y", " ">>

TmplLabel ==
    <<" ", "-", "-", "l", "a", "b", "e", "l", " ">>

TmplInsecure ==
    <<" ", "-", "-", "i", "n", "s", "e", "c", "u", "r", "e", "-", "r", "e",
      "g", "i", "s", "t", "r", "y", " ">>

TmplMirror ==
    <<" ", "-", "-", "r", "e", "g", "i", "s", "t", "r", "y", "-", "m", "i",
      "r", "r", "o", "r", " ">>

TmplFlag ==
    <<" ", "-", "-">>

TmplTail ==
    <<" ", "\\", "$", "D", "O", "C", "K", "E", "R", "_", "O", "P", "T", "S",
      " ", "\\", "$", "D", "O", "C", "K", "E", "R", "_", "O", "P", "T", "_",
      "B", "I", "P", " ", "\\", "$", "D", "O", "C", "K", "E", "R", "_", "O",
      "P", "T", "_", "M", "T", "U", " ", "\\", "$", "D", "O", "C", "K", "E",
      "R", "_", "O", "P", "T", "_", "I", "P", "M", "A", "S", "Q", "\n", "E",
      "n", "v", "i", "r", "o", "n", "m", "e", "n", "t", "=">>

StrDaemonOptionsFile ==
    <<"/", "e", "t", "c", "/", "s", "y", "s", "t", "e", "m", "d", "/", "s",
      "y", "s", "t", "e", "m", "/", "d", "o", "c", "k", "e", "r", ".", "s",
      "e", "r", "v", "i", "c", "e", ".", "d", "/", "1", "0", "-", "m", "a",
      "c", "h", "i", "n", "e", ".", "c", "o", "n", "f">>

StrDockerOptionsDir ==
    <<"/", "e", "t", "c", "/", "d", "o", "c", "k", "e", "r">>

StrCaPem ==
    <<"/", "c", "a", ".", "p", "e", "m">>

StrServerPem ==
    <<"/", "s", "e", "r", "v", "e", "r", ".", "p", "e", "m">>

StrServerKeyPem ==
    <<"/", "s", "e", "r", "v", "e", "r", "-", "k", "e", "y", ".", "p", "e",
      "m">>


SP ==
    <<" ">>

(***************************************************************************)
(* String helpers.                                                         *)
(***************************************************************************)
\* strings.Contains
Contains(s, sub) ==
    \E i \in 1..(Len(s) - Len(sub) + 1) : SubSeq(s, i, i + Len(sub) - 1) = sub

\* strings.HasPrefix
HasPrefix(s, p) ==
    Len(p) <= Len(s) /\ SubSeq(s, 1, Len(p)) = p

\* strings.HasSuffix
HasSuffix(s, p) ==
    Len(p) <= Len(s) /\ SubSeq(s, Len(s) - Len(p) + 1, Len(s)) = p

\* The concatenation of a sequence of strings.
RECURSIVE Concat(_)
Concat(ss) ==
    IF ss = <<>> THEN <<>> ELSE Head(ss) \o Concat(Tail(ss))

(***************************************************************************)
(* Values.                                                                 *)
(***************************************************************************)
\* A nil error.
Nil ==
    [kind |-> "nil", at |-> "", n |-> 0]

\* The error a collaborator produces when its remote command fails for a
\* reason other than lock contention.
StepError(step) ==
    [kind |-> "error", at |-> step, n |-> 0]

\* The error carrying the package manager's lock-contention signature, as
\* produced by the n-th invocation of the command.
LockError(n) ==
    [kind |-> "lock", at |-> "Package", n |-> n]

\* pkgaction.PackageAction
PackageActions ==
    {"Install", "Upgrade", "Remove", "Purge"}

\* Package names a caller passes to Package.
PackageNames ==
    {StrDocker, StrContainersBasic, StrNginx, StrDockerd, StrCurl}

\* The collaborators of Provision that issue one remote command.
FireOnce ==
    {"SetHostname", "makeDockerOptionsDir", "ConfigureAuth", "configureSwarm",
     "Service"}

\* drivers.Driver: the machine name and the driver name it reports.
Drivers ==
    {[MachineName |-> <<"d", "e", "v">>, DriverName |-> <<"k", "v", "m">>],
     [MachineName |-> <<"c", "i", "-", "1">>, DriverName |-> <<"a", "w", "s">>]}

\* auth.Options: the zero value, and the values a caller supplies.
ZeroAuthOptions ==
    [CaCertPath |-> <<>>, CaCertRemotePath |-> <<>>,
     ServerCertRemotePath |-> <<>>, ServerKeyRemotePath |-> <<>>]

AuthInputs ==
    {[CaCertPath |-> <<"~", "/", "c", "a">>, CaCertRemotePath |-> <<>>,
      ServerCertRemotePath |-> <<>>, ServerKeyRemotePath |-> <<>>],
     [CaCertPath |-> <<"~", "/", "c", "a">>,
      CaCertRemotePath |-> <<"/", "r", "/", "c", "a">>,
      ServerCertRemotePath |-> <<"/", "r", "/", "s">>,
      ServerKeyRemotePath |-> <<"/", "r", "/", "k">>]}

\* engine.Options: the zero value, and the values a caller supplies.
ZeroEngineOptions ==
    [ArbitraryFlags |-> <<>>, Env |-> <<>>, InsecureRegistry |-> <<>>,
     Labels |-> <<>>, RegistryMirror |-> <<>>]

EngineInputs ==
    {ZeroEngineOptions,
     [ArbitraryFlags |-> << <<"d", "e", "b", "u", "g">> >>,
      Env |-> << <<"A", "=", "1">> >>,
      InsecureRegistry |-> << <<"r", ":", "5">> >>,
      Labels |-> << <<"a", "=", "b">>, <<"c", "=", "d">> >>,
      RegistryMirror |-> << <<"m", "2">>, <<"m", "1">> >>],
     [ArbitraryFlags |-> <<>>, Env |-> <<>>, InsecureRegistry |-> <<>>,
      Labels |-> << <<"e", "=", "f", " ", "g">> >>,
      RegistryMirror |-> << <<"m", "1">> >>]}

\* swarm.Options
ZeroSwarmOptions ==
    [IsSwarm |-> FALSE]

SwarmInputs ==
    {[IsSwarm |-> FALSE], [IsSwarm |-> TRUE]}

\* The runtime versions the remote host may report.
Versions ==
    {<<"1", ".", "9", ".", "0">>,
     <<"1", ".", "1", "1", ".", "0">>,
     <<"1", ".", "1", "1", ".", "2">>,
     <<"1", ".", "1", "2", ".", "0">>,
     <<"1", ".", "1", "2", ".", "1">>,
     <<"1", ".", "1", "3", ".", "0">>,
     <<"1", "7", ".", "3", ".", "0">>}

\* The TCP ports a caller passes to GenerateDockerOptions.
Ports ==
    {2376, 80}

(***************************************************************************)
(* The scripted remote executor: which fire-once commands it fails, how    *)
(* many invocations of the package-manager command it fails with the       *)
(* lock-contention signature before answering pkgFinal, and what the       *)
(* runtime version query answers.                                          *)
(***************************************************************************)
DefaultVersion ==
    <<"1", ".", "1", "2", ".", "0">>

PackageScripts ==
    {[always |-> FALSE, locks |-> k, final |-> f] :
        k \in 0..(RetryCeiling + 1), f \in {"ok", "error"}}
    \cup {[always |-> TRUE, locks |-> 0, final |-> "ok"]}

AckPackage ==
    [always |-> FALSE, locks |-> 0, final |-> "ok"]

StubsOf(e) ==
    CASE e = "Provision" ->
           {[fails |-> F, pkg |-> p, version |-> DefaultVersion,
             versionFails |-> FALSE] :
               F \in SUBSET FireOnce, p \in PackageScripts}
      [] e = "Package" ->
           {[fails |-> {}, pkg |-> p, version |-> DefaultVersion,
             versionFails |-> FALSE] : p \in PackageScripts}
      [] e = "GenerateDockerOptions" ->
           {[fails |-> {}, pkg |-> AckPackage, version |-> v,
             versionFails |-> b] : v \in Versions, b \in BOOLEAN}

VARIABLES
    entry,          \* the method the caller invokes on the instance
    stub,           \* the remote executor's script
    driver,         \* provisioner.Driver
    SwarmOptions,   \* provisioner.SwarmOptions
    AuthOptions,    \* provisioner.AuthOptions
    EngineOptions,  \* provisioner.EngineOptions
    pc,             \* the position of the call in flight
    state,          \* the state of the provisioning run
    visited,        \* the states the run has been in, in order
    issued,         \* the commands the remote executor was handed, in order
    pkg,            \* Package and waitForLock: command, attempts, waits
    err,            \* Provision's local err
    result,         \* what the last call returned
    gen,            \* GenerateDockerOptions: calls made, last options returned
    process,        \* the process: loading its packages, or in main
    registry,       \* the provisioner registry: identifier -> constructor
    registered,     \* the identifiers Register was called with, in order
    lookup,         \* the outcome of the last Lookup
    heap,           \* the strategy instances constructed so far
    runs            \* the provisioning run of each host

\* The instance and the call of the single-run specifications.
runVars ==
    <<entry, stub, driver, SwarmOptions, AuthOptions, EngineOptions, pc,
      state, visited, issued, pkg, err, result, gen>>

\* The process-wide registry and the runs of several hosts.
processVars ==
    <<process, registry, registered, lookup, heap, runs>>

vars ==
    <<runVars, processVars>>

NoResult ==
    [kind |-> "none", at |-> "", n |-> 0]

NoPackage ==
    [name |-> <<>>, action |-> "", command |-> <<>>, attempts |-> 0,
     waits |-> 0, caller |-> ""]

NoOptions ==
    [EngineOptions |-> <<>>, EngineOptionsPath |-> <<>>]

\* The remote paths a provisioning run writes into the auth options.
RemoteAuthOptions(authOptions) ==
    [authOptions EXCEPT
        !.CaCertRemotePath = StrDockerOptionsDir \o StrCaPem,
        !.ServerCertRemotePath = StrDockerOptionsDir \o StrServerPem,
        !.ServerKeyRemotePath = StrDockerOptionsDir \o StrServerKeyPem]

\* The hosts provisioned side by side, and the driver of each.
Hosts ==
    {"h1", "h2"}

DriverOf(h) ==
    CHOOSE d \in Drivers :
        (h = "h1") <=> (d.MachineName = <<"d", "e", "v">>)

\* The registry before any Register, and the identifiers looked up.
NoRegistry ==
    [id \in {} |-> ""]

Identifiers ==
    {"ClearLinux", "clear-linux-os", "clearlinux"}

NoLookup ==
    [id |-> "", found |-> FALSE, New |-> ""]

\* What the remote host of a run answers: the steps whose command fails
\* and the script of the package manager.
NoScript ==
    [fails |-> {}, pkg |-> AckPackage]

HostScripts ==
    {NoScript,
     [fails |-> {"ConfigureAuth"}, pkg |-> AckPackage],
     [fails |-> {}, pkg |-> [always |-> FALSE, locks |-> 1, final |-> "ok"]]}

NoArgs ==
    [swarmOptions |-> ZeroSwarmOptions, authOptions |-> ZeroAuthOptions,
     engineOptions |-> ZeroEngineOptions]

\* The run of a host before its strategy is selected.
NoRun ==
    [pc |-> "new", self |-> 0, script |-> NoScript, args |-> NoArgs,
     state |-> "Init", visited |-> <<"Init">>, issued |-> <<>>,
     pkg |-> NoPackage, err |-> Nil, result |-> NoResult]

\* NewClearLinuxProvisioner(d): a fresh instance whose option fields hold
\* their zero values; no call is in flight.  GenerateDockerOptions is
\* called on an instance whose auth and engine options a provisioning run
\* has set, before or after the remote paths were written.
Init ==
    /\ entry \in {"Provision", "Package", "GenerateDockerOptions"}
    /\ stub \in StubsOf(entry)
    /\ driver \in Drivers
    /\ SwarmOptions = ZeroSwarmOptions
    /\ IF entry = "GenerateDockerOptions"
       THEN /\ AuthOptions \in AuthInputs
                              \cup {RemoteAuthOptions(a) : a \in AuthInputs}
            /\ EngineOptions \in EngineInputs
       ELSE /\ AuthOptions = ZeroAuthOptions
            /\ EngineOptions = ZeroEngineOptions
    /\ pc = "idle"
    /\ state = "Init"
    /\ visited = <<"Init">>
    /\ issued = <<>>
    /\ pkg = NoPackage
    /\ err = Nil
    /\ result = NoResult
    /\ gen = [calls |-> 0, port |-> 0, options |-> NoOptions, returned |-> <<>>]
    /\ process = "loading"
    /\ registry = NoRegistry
    /\ registered = <<>>
    /\ lookup = NoLookup
    /\ heap = <<>>
    /\ runs = [h \in Hosts |-> NoRun]

(***************************************************************************)
(* The remote executor and the collaborators of the provisioner.           *)
(***************************************************************************)
\* Remote Executor: the error (Nil on success) the script answers to the
\* n-th invocation of the command of `step`.
Execute(step, n) ==
    IF step = "Package"
    THEN IF stub.pkg.always \/ n <= stub.pkg.locks
         THEN LockError(n)
         ELSE IF stub.pkg.final = "ok" THEN Nil ELSE StepError("Package")
    ELSE IF step \in stub.fails THEN StepError(step) ELSE Nil

\* What the remote executor records of a command it is handed: the step it
\* belongs to, its text where the source builds it, and the auth options
\* the instance holds at that moment.
Handed(step, command) ==
    [step |-> step, command |-> command, auth |-> AuthOptions]

\* makeDockerOptionsDir(p): one remote command; its error is returned.
makeDockerOptionsDir(sshErr) ==
    sshErr

\* setRemoteAuthOptions(p): the instance's auth options with the three
\* remote paths pointing into the remote options directory.
setRemoteAuthOptions(authOptions) ==
    RemoteAuthOptions(authOptions)

\* ConfigureAuth(p): deploys the certificate material; its error is returned.
ConfigureAuth(sshErr) ==
    sshErr

\* configureSwarm(p, swarmOptions, authOptions) issues its command only
\* when the swarm options request cluster membership.
SwarmRequested(swarmOptions) ==
    swarmOptions.IsSwarm

configureSwarm(sshErr) ==
    sshErr

\* provisioner.Service("docker", serviceaction.Enable)
Service(sshErr) ==
    sshErr

\* Lock-Retry Executor: whether the n-th invocation's error is retried
\* after a wait.
RetryOnLock(e, n) ==
    e.kind = "lock" /\ n < RetryCeiling

\* waitForLock: what it returns when it does not retry.
waitForLock(e) ==
    e

(***************************************************************************)
(* SetHostname                                                             *)
(***************************************************************************)
\* fmt.Sprintf("sudo hostnamectl set-hostname %s", hostname)
SetHostnameCommand(hostname) ==
    StrSetHostnameCmd \o hostname

\* Mutant: the error of the remote command is swallowed.
SetHostname_ErrorSwallowed(sshErr) ==
    Nil

\* if _, err := provisioner.SSHCommand(command); err != nil { return err }
\* return nil
SetHostname(sshErr) ==
    IF sshErr # Nil THEN sshErr ELSE Nil

(***************************************************************************)
(* Package                                                                 *)
(***************************************************************************)
\* Mutant: Remove is given the fragment of Purge.
packageAction_RemoveAssigned(action) ==
    CASE action \in {"Install", "Upgrade"} -> StrBundleAdd
      [] action \in {"Remove", "Purge"} -> StrBundleRemove
      [] OTHER -> <<>>

\* Mutant: Purge falls into the empty Remove case.
packageAction_PurgeUnassigned(action) ==
    CASE action \in {"Install", "Upgrade"} -> StrBundleAdd
      [] OTHER -> <<>>

\* switch action { ... }: Remove assigns nothing to packageAction.
packageAction(action) ==
    CASE action \in {"Install", "Upgrade"} -> StrBundleAdd
      [] action = "Remove" -> <<>>
      [] action = "Purge" -> StrBundleRemove
      [] OTHER -> <<>>

\* Mutant: the name is not aliased.
aliasName_NoAlias(name) ==
    name

\* switch name { case "docker": name = "containers-basic" }
aliasName(name) ==
    IF name = StrDocker THEN StrContainersBasic ELSE name

\* fmt.Sprintf("swupd %s %s ", packageAction, name)
PackageCommand(name, action) ==
    StrSwupd \o SP \o packageAction(action) \o SP \o aliasName(name) \o SP

\* Mutant: Package runs the command with provisioner.SSHCommand itself.
PackageWaitsForLock_RunsDirectly(e, n) ==
    FALSE

\* Mutant: Package retries the command on any error.
PackageWaitsForLock_RetriesAnyError(e, n) ==
    e # Nil /\ n < RetryCeiling

\* waitForLock(provisioner, command): the command is run by the lock-retry
\* executor, which decides whether the n-th invocation's error is retried.
PackageWaitsForLock(e, n) ==
    RetryOnLock(e, n)

\* Mutant: the unreachable `return nil` is what Package returns.
PackageReturn_Nil(e) ==
    Nil

\* return waitForLock(provisioner, command)
PackageReturn(e) ==
    e

\* Package(name, action) up to its call of waitForLock.
PackageCall(name, action, caller) ==
    [name |-> name, action |-> action,
     command |-> PackageCommand(name, action),
     attempts |-> 0, waits |-> 0, caller |-> caller]

(***************************************************************************)
(* Provision                                                               *)
(***************************************************************************)
\* Mutant: configureSwarm is called before ConfigureAuth.
ProvisionSequence_SwarmBeforeAuth ==
    <<"SetHostname", "makeDockerOptionsDir", "Package",
      "setRemoteAuthOptions", "configureSwarm", "ConfigureAuth", "Service">>

\* The steps of Provision in the order of its statements.
ProvisionSequence ==
    <<"SetHostname", "makeDockerOptionsDir", "Package",
      "setRemoteAuthOptions", "ConfigureAuth", "configureSwarm", "Service">>

\* Mutant: the Service step is left out.
StepAfter_ServiceLeftOut(step) ==
    LET i == CHOOSE j \in 1..Len(ProvisionSequence) :
                 ProvisionSequence[j] = step
    IN  IF i >= Len(ProvisionSequence) - 1 THEN "return"
        ELSE ProvisionSequence[i + 1]

StepAfter(step) ==
    LET i == CHOOSE j \in 1..Len(ProvisionSequence) :
                 ProvisionSequence[j] = step
    IN  IF i = Len(ProvisionSequence) THEN "return"
        ELSE ProvisionSequence[i + 1]

\* The state of the run once `step` has completed.
StateAfter(step) ==
    CASE step = "SetHostname" -> "HostnameSet"
      [] step = "makeDockerOptionsDir" -> "PackageDirReady"
      [] step = "Package" -> "BasePackageInstalled"
      [] step = "setRemoteAuthOptions" -> "AuthPrepared"
      [] step = "ConfigureAuth" -> "AuthConfigured"
      [] step = "configureSwarm" -> "SwarmConfigured"
      [] step = "Service" -> "ServiceEnabled"

\* `step` has completed: the run is in its state and at the next step.
Advance(step) ==
    /\ pc' = StepAfter(step)
    /\ state' = StateAfter(step)
    /\ visited' = Append(visited, StateAfter(step))

\* Mutant: after a failure the sequence is started again.
Abort_Restart(e) ==
    /\ pc' = ProvisionSequence[1]
    /\ result' = e
    /\ UNCHANGED <<state, visited>>

\* The run ends with the error e.
Abort(e) ==
    /\ pc' = "returned"
    /\ result' = e
    /\ UNCHANGED <<state, visited>>

\* Mutant: the step's error is not looked at.
Checked_ErrorIgnored(step, e) ==
    Advance(step) /\ UNCHANGED result

\* if err := step(...); err != nil { return err }
Checked(step, e) ==
    IF e # Nil
    THEN Abort(e)
    ELSE Advance(step) /\ UNCHANGED result

\* provisioner.SwarmOptions = swarmOptions; provisioner.AuthOptions =
\* authOptions; provisioner.EngineOptions = engineOptions
CallProvision ==
    /\ pc = "idle"
    /\ entry = "Provision"
    /\ \E s \in SwarmInputs, a \in AuthInputs, e \in EngineInputs :
          /\ SwarmOptions' = s
          /\ AuthOptions' = a
          /\ EngineOptions' = e
    /\ pc' = ProvisionSequence[1]
    /\ UNCHANGED processVars
    /\ UNCHANGED <<entry, stub, driver, state, visited, issued, pkg, err,
                   result, gen>>

\* provisioner.SetHostname(provisioner.Driver.GetMachineName())
ProvisionSetHostname ==
    /\ pc = "SetHostname"
    /\ issued' = Append(issued, Handed("SetHostname",
                                       SetHostnameCommand(driver.MachineName)))
    /\ Checked("SetHostname", SetHostname(Execute("SetHostname", 1)))
    /\ UNCHANGED processVars
    /\ UNCHANGED <<entry, stub, driver, SwarmOptions, AuthOptions,
                   EngineOptions, pkg, err, gen>>

\* makeDockerOptionsDir(provisioner)
ProvisionMakeDockerOptionsDir ==
    /\ pc = "makeDockerOptionsDir"
    /\ issued' = Append(issued, Handed("makeDockerOptionsDir", <<>>))
    /\ Checked("makeDockerOptionsDir",
               makeDockerOptionsDir(Execute("makeDockerOptionsDir", 1)))
    /\ UNCHANGED processVars
    /\ UNCHANGED <<entry, stub, driver, SwarmOptions, AuthOptions,
                   EngineOptions, pkg, err, gen>>

\* provisioner.Package("containers-basic", pkgaction.Install)
ProvisionPackage ==
    /\ pc = "Package"
    /\ pkg' = PackageCall(StrContainersBasic, "Install", "Provision")
    /\ pc' = "waitForLock"
    /\ UNCHANGED processVars
    /\ UNCHANGED <<entry, stub, driver, SwarmOptions, AuthOptions,
                   EngineOptions, state, visited, issued, err, result, gen>>

\* A caller's own provisioner.Package(name, action).
CallPackage ==
    /\ pc = "idle"
    /\ entry = "Package"
    /\ \E name \in PackageNames, action \in PackageActions :
          pkg' = PackageCall(name, action, "caller")
    /\ pc' = "waitForLock"
    /\ UNCHANGED processVars
    /\ UNCHANGED <<entry, stub, driver, SwarmOptions, AuthOptions,
                   EngineOptions, state, visited, issued, err, result, gen>>

\* One invocation of the package-manager command by waitForLock: on the
\* lock-contention signature below the ceiling it waits and stays; else
\* Package returns what waitForLock returns.
WaitForLock ==
    /\ pc = "waitForLock"
    /\ LET n == pkg.attempts + 1
           e == Execute("Package", n)
       IN  /\ issued' = Append(issued, Handed("Package", pkg.command))
           /\ IF PackageWaitsForLock(e, n)
              THEN /\ pkg' = [pkg EXCEPT !.attempts = n, !.waits = @ + 1]
                   /\ UNCHANGED <<pc, state, visited, result>>
              ELSE /\ pkg' = [pkg EXCEPT !.attempts = n]
                   /\ IF pkg.caller = "Provision"
                      THEN Checked("Package", PackageReturn(waitForLock(e)))
                      ELSE /\ pc' = "returned"
                           /\ result' = PackageReturn(waitForLock(e))
                           /\ UNCHANGED <<state, visited>>
    /\ UNCHANGED processVars
    /\ UNCHANGED <<entry, stub, driver, SwarmOptions, AuthOptions,
                   EngineOptions, err, gen>>

\* Mutant: the result of setRemoteAuthOptions is not assigned to the field.
ProvisionSetRemoteAuthOptions_NotAssigned ==
    /\ pc = "setRemoteAuthOptions"
    /\ Advance("setRemoteAuthOptions")
    /\ UNCHANGED processVars
    /\ UNCHANGED <<entry, stub, driver, SwarmOptions, AuthOptions,
                   EngineOptions, issued, pkg, err, result, gen>>

\* provisioner.AuthOptions = setRemoteAuthOptions(provisioner)
ProvisionSetRemoteAuthOptions ==
    /\ pc = "setRemoteAuthOptions"
    /\ AuthOptions' = setRemoteAuthOptions(AuthOptions)
    /\ Advance("setRemoteAuthOptions")
    /\ UNCHANGED processVars
    /\ UNCHANGED <<entry, stub, driver, SwarmOptions, EngineOptions, issued,
                   pkg, err, result, gen>>

\* ConfigureAuth(provisioner)
ProvisionConfigureAuth ==
    /\ pc = "ConfigureAuth"
    /\ issued' = Append(issued, Handed("ConfigureAuth", <<>>))
    /\ Checked("ConfigureAuth", ConfigureAuth(Execute("ConfigureAuth", 1)))
    /\ UNCHANGED processVars
    /\ UNCHANGED <<entry, stub, driver, SwarmOptions, AuthOptions,
                   EngineOptions, pkg, err, gen>>

\* err := configureSwarm(provisioner, swarmOptions, provisioner.AuthOptions)
\* if err != nil { return err }
ProvisionConfigureSwarm ==
    /\ pc = "configureSwarm"
    /\ IF SwarmRequested(SwarmOptions)
       THEN /\ issued' = Append(issued, Handed("configureSwarm", <<>>))
            /\ Checked("configureSwarm",
                       configureSwarm(Execute("configureSwarm", 1)))
       ELSE /\ UNCHANGED issued
            /\ Checked("configureSwarm", Nil)
    /\ UNCHANGED processVars
    /\ UNCHANGED <<entry, stub, driver, SwarmOptions, AuthOptions,
                   EngineOptions, pkg, err, gen>>

\* err = provisioner.Service("docker", serviceaction.Enable)
ProvisionService ==
    /\ pc = "Service"
    /\ issued' = Append(issued, Handed("Service", <<>>))
    /\ LET e == Service(Execute("Service", 1))
       IN  /\ err' = e
           /\ IF e = Nil
              THEN Advance("Service")
              ELSE pc' = "return" /\ UNCHANGED <<state, visited>>
    /\ UNCHANGED processVars
    /\ UNCHANGED <<entry, stub, driver, SwarmOptions, AuthOptions,
                   EngineOptions, pkg, result, gen>>

\* return err
ProvisionResult(e) ==
    e

ProvisionReturn ==
    /\ pc = "return"
    /\ result' = ProvisionResult(err)
    /\ pc' = "returned"
    /\ IF err = Nil
       THEN state' = "Done" /\ visited' = Append(visited, "Done")
       ELSE UNCHANGED <<state, visited>>
    /\ UNCHANGED processVars
    /\ UNCHANGED <<entry, stub, driver, SwarmOptions, AuthOptions,
                   EngineOptions, issued, pkg, err, gen>>

(***************************************************************************)
(* GenerateDockerOptions                                                   *)
(***************************************************************************)
Digits ==
    <<"0", "1", "2", "3", "4", "5", "6", "7", "8", "9">>

\* The decimal rendering of a non-negative integer, as {{.DockerPort}}
\* renders an int.
RECURSIVE Itoa(_)
Itoa(n) ==
    IF n < 10 THEN <<Digits[n + 1]>>
    ELSE Itoa(n \div 10) \o <<Digits[(n % 10) + 1]>>

\* The value of a decimal numeral; a character that is no digit counts 0.
DigitValue(c) ==
    IF \E d \in 1..10 : Digits[d] = c
    THEN (CHOOSE d \in 1..10 : Digits[d] = c) - 1
    ELSE 0

RECURSIVE Atoi(_)
Atoi(s) ==
    IF s = <<>> THEN 0
    ELSE Atoi(SubSeq(s, 1, Len(s) - 1)) * 10 + DigitValue(s[Len(s)])

\* strings.Split(s, sep) for a one-character separator.
RECURSIVE Split(_, _)
Split(s, sep) ==
    IF \E i \in 1..Len(s) : s[i] = sep
    THEN LET i == CHOOSE j \in 1..Len(s) :
                      s[j] = sep /\ \A k \in 1..(j - 1) : s[k] # sep
         IN  <<SubSeq(s, 1, i - 1)>> \o Split(SubSeq(s, i + 1, Len(s)), sep)
    ELSE <<s>>

\* versioncmp: the dotted numeric fields of a version.
ParseVersion(v) ==
    LET fields == Split(v, ".")
    IN  [i \in 1..Len(fields) |-> Atoi(fields[i])]

\* versioncmp.Compare: -1, 0 or 1, field by field, a missing field being 0.
RECURSIVE CompareFields(_, _)
CompareFields(a, b) ==
    IF a = <<>> /\ b = <<>> THEN 0
    ELSE LET x == IF a = <<>> THEN 0 ELSE Head(a)
             y == IF b = <<>> THEN 0 ELSE Head(b)
         IN  IF x < y THEN 0 - 1
             ELSE IF x > y THEN 1
             ELSE CompareFields(IF a = <<>> THEN a ELSE Tail(a),
                                IF b = <<>> THEN b ELSE Tail(b))

\* versioncmp.GreaterThanOrEqualTo(v1, v2)
GreaterThanOrEqualTo(v1, v2) ==
    CompareFields(ParseVersion(v1), ParseVersion(v2)) >= 0

\* DockerClientVersion(provisioner): the runtime version the remote host
\* reports, or the error of the query.
DockerClientVersion ==
    [version |-> IF stub.versionFails THEN <<>> ELSE stub.version,
     err |-> IF stub.versionFails THEN StepError("DockerClientVersion")
             ELSE Nil]

\* fmt.Sprintf("provider=%s", provisioner.Driver.DriverName())
driverNameLabel ==
    StrProviderEq \o driver.DriverName

\* Mutant: the threshold is compared with GreaterThan.
arg_StrictlyGreater(dockerVersion) ==
    IF CompareFields(ParseVersion(dockerVersion), ParseVersion(StrThreshold)) > 0
    THEN <<>>
    ELSE StrDaemon

\* arg := "daemon"
\* if versioncmp.GreaterThanOrEqualTo(dockerVersion, "1.12.0") { arg = "" }
arg(dockerVersion) ==
    IF GreaterThanOrEqualTo(dockerVersion, StrThreshold) THEN <<>>
    ELSE StrDaemon

\* {{ range items }}<prefix>{{.}}{{ end }}
RECURSIVE Range(_, _)
Range(prefix, items) ==
    IF items = <<>> THEN <<>>
    ELSE prefix \o Head(items) \o Range(prefix, Tail(items))

\* {{ printf "%q" . }}: the value in double quotes, with the double quotes
\* and backslashes in it escaped.
RECURSIVE Escape(_)
Escape(s) ==
    IF s = <<>> THEN <<>>
    ELSE (IF Head(s) \in {"\"", "\\"} THEN <<"\\", Head(s)>> ELSE <<Head(s)>>)
         \o Escape(Tail(s))

Quote(s) ==
    <<"\"">> \o Escape(s) \o <<"\"">>

\* {{range .EngineOptions.Env}}{{ printf "%q" . }} {{end}}
RECURSIVE RangeEnv(_)
RangeEnv(items) ==
    IF items = <<>> THEN <<>>
    ELSE Quote(Head(items)) \o SP \o RangeEnv(Tail(items))

\* The engineConfigTmpl of the given arg, executed on the context.
Execute_engineConfigTmpl(a, ctx) ==
    TmplHead \o a \o TmplHost \o Itoa(ctx.DockerPort)
    \o TmplCaCert \o ctx.AuthOptions.CaCertRemotePath
    \o TmplCert \o ctx.AuthOptions.ServerCertRemotePath
    \o TmplKey \o ctx.AuthOptions.ServerKeyRemotePath
    \o Range(TmplLabel, ctx.EngineOptions.Labels)
    \o Range(TmplInsecure, ctx.EngineOptions.InsecureRegistry)
    \o Range(TmplMirror, ctx.EngineOptions.RegistryMirror)
    \o Range(TmplFlag, ctx.EngineOptions.ArbitraryFlags)
    \o TmplTail \o RangeEnv(ctx.EngineOptions.Env) \o <<"\n">>

\* EngineConfigContext{DockerPort, AuthOptions, EngineOptions}
EngineConfigContext(dockerPort, authOptions, engineOptions) ==
    [DockerPort |-> dockerPort, AuthOptions |-> authOptions,
     EngineOptions |-> engineOptions]

\* GenerateDockerOptions(dockerPort): the label is appended to the
\* instance's engine options before the version query; a failed query
\* returns (nil, err); else the rendered text and the options path are
\* returned with a nil error (the error of t.Execute is not looked at).
CallGenerateDockerOptions ==
    /\ pc = "idle"
    /\ entry = "GenerateDockerOptions"
    /\ gen.calls < MaxCalls
    /\ \E dockerPort \in Ports :
          LET labelled == [EngineOptions EXCEPT
                              !.Labels = Append(@, driverNameLabel)]
              queried == DockerClientVersion
              ctx == EngineConfigContext(dockerPort, AuthOptions, labelled)
              options == [EngineOptions |->
                              Execute_engineConfigTmpl(arg(queried.version),
                                                       ctx),
                          EngineOptionsPath |-> StrDaemonOptionsFile]
          IN  /\ EngineOptions' = labelled
              /\ issued' = Append(issued, Handed("DockerClientVersion", <<>>))
              /\ result' = queried.err
              /\ gen' = [calls |-> gen.calls + 1,
                         port |-> dockerPort,
                         options |-> IF queried.err # Nil THEN NoOptions
                                     ELSE options,
                         returned |-> Append(gen.returned,
                                             IF queried.err # Nil
                                             THEN NoOptions ELSE options)]
    /\ UNCHANGED processVars
    /\ UNCHANGED <<entry, stub, driver, SwarmOptions, AuthOptions, pc, state,
                   visited, pkg, err>>

(***************************************************************************)
(* The provisioner registry and the runs of several hosts.                 *)
(***************************************************************************)
\* Register(name, p): adds the mapping; a later registration of the same
\* identifier replaces the earlier one.
Register(reg, name, New) ==
    [id \in DOMAIN reg \cup {name} |-> IF id = name THEN New ELSE reg[id]]

\* Lookup(identifier) -> strategy-constructor, found
Lookup(reg, identifier) ==
    IF identifier \in DOMAIN reg
    THEN [id |-> identifier, found |-> TRUE, New |-> reg[identifier]]
    ELSE [id |-> identifier, found |-> FALSE, New |-> ""]

\* NewSystemdProvisioner(osReleaseID, d): the generic fields of an instance;
\* its option fields hold their zero values.
NewSystemdProvisioner(osReleaseID, d) ==
    [OsReleaseID |-> osReleaseID, Driver |-> d,
     DaemonOptionsFile |-> StrDaemonOptionsFile,
     SwarmOptions |-> ZeroSwarmOptions, AuthOptions |-> ZeroAuthOptions,
     EngineOptions |-> ZeroEngineOptions]

\* Mutant: the constructor hands out the one instance it made first.
NewClearLinuxProvisioner_Shared(d, h) ==
    IF h = <<>>
    THEN [heap |-> <<NewSystemdProvisioner("clear-linux-os", d)>>, ref |-> 1]
    ELSE [heap |-> h, ref |-> 1]

\* return &ClearLinuxProvisioner{NewSystemdProvisioner("clear-linux-os", d)}
\* A new object is allocated and a reference to it is returned.
NewClearLinuxProvisioner(d, h) ==
    [heap |-> Append(h, NewSystemdProvisioner("clear-linux-os", d)),
     ref |-> Len(h) + 1]

\* The constructor a registry entry holds, applied to a driver.
New(constructor, d, h) ==
    CASE constructor = "NewClearLinuxProvisioner" ->
           NewClearLinuxProvisioner(d, h)

\* Mutant: the strategy is registered under its OS release identifier.
init_RegistersOsReleaseID ==
    /\ process = "loading"
    /\ registry' = Register(registry, "clear-linux-os",
                            "NewClearLinuxProvisioner")
    /\ registered' = Append(registered, "clear-linux-os")
    /\ process' = "main"
    /\ UNCHANGED <<lookup, heap, runs>>
    /\ UNCHANGED runVars

\* func init() { Register("ClearLinux", &RegisteredProvisioner{New:
\* NewClearLinuxProvisioner}) }: run once while the process loads its
\* packages, before main.
init ==
    /\ process = "loading"
    /\ registry' = Register(registry, "ClearLinux",
                            "NewClearLinuxProvisioner")
    /\ registered' = Append(registered, "ClearLinux")
    /\ process' = "main"
    /\ UNCHANGED <<lookup, heap, runs>>
    /\ UNCHANGED runVars

\* A caller in main looks an identifier up.
CallLookup ==
    /\ process = "main"
    /\ \E identifier \in Identifiers :
          lookup' = Lookup(registry, identifier)
    /\ UNCHANGED <<process, registry, registered, heap, runs>>
    /\ UNCHANGED runVars

\* The run of host h selects its strategy: the registry is consulted once
\* and the constructor found is applied to the host's driver.
SelectStrategy(h) ==
    /\ process = "main"
    /\ runs[h].pc = "new"
    /\ LET l == Lookup(registry, "ClearLinux")
       IN  /\ lookup' = l
           /\ IF l.found
              THEN LET made == New(l.New, DriverOf(h), heap)
                   IN  /\ heap' = made.heap
                       /\ runs' = [runs EXCEPT ![h].pc = "call",
                                               ![h].self = made.ref]
              ELSE /\ runs' = [runs EXCEPT ![h].pc = "unsupported"]
                   /\ UNCHANGED heap
    /\ UNCHANGED <<process, registry, registered>>
    /\ UNCHANGED runVars

\* The remote executor of one run: the error its host's script answers to
\* the n-th invocation of the command of `step`.
ExecuteOn(script, step, n) ==
    IF step = "Package"
    THEN IF script.pkg.always \/ n <= script.pkg.locks
         THEN LockError(n)
         ELSE IF script.pkg.final = "ok" THEN Nil ELSE StepError("Package")
    ELSE IF step \in script.fails THEN StepError(step) ELSE Nil

\* What the remote executor of a run records of a command: the auth
\* options of the instance the command was issued on.
HandedOn(inst, step, command) ==
    [step |-> step, command |-> command, auth |-> inst.AuthOptions]

\* The run has completed `step`.
AdvanceRun(run, step) ==
    [run EXCEPT !.pc = StepAfter(step), !.state = StateAfter(step),
                !.visited = Append(@, StateAfter(step))]

\* if err != nil { return err }
CheckedRun(run, step, e) ==
    IF e # Nil
    THEN [run EXCEPT !.pc = "returned", !.result = e]
    ELSE AdvanceRun(run, step)

\* Provision up to its first step, on the instance `inst`:
\* provisioner.SwarmOptions = swarmOptions; provisioner.AuthOptions =
\* authOptions; provisioner.EngineOptions = engineOptions
ProvisionCall(run, inst, args, script) ==
    [run |-> [run EXCEPT !.pc = ProvisionSequence[1], !.args = args,
                         !.script = script],
     inst |-> [inst EXCEPT !.SwarmOptions = args.swarmOptions,
                           !.AuthOptions = args.authOptions,
                           !.EngineOptions = args.engineOptions]]

\* One step of Provision: what it makes of the run and of the instance
\* the run was called on.  It is given nothing else.
ProvisionStep(run, inst) ==
    LET issue(step, command) ==
            [run EXCEPT !.issued = Append(@, HandedOn(inst, step, command))]
    IN
    CASE run.pc = "SetHostname" ->
           [run |-> CheckedRun(
                       issue("SetHostname",
                             SetHostnameCommand(inst.Driver.MachineName)),
                       "SetHostname",
                       SetHostname(ExecuteOn(run.script, "SetHostname", 1))),
            inst |-> inst]
      [] run.pc = "makeDockerOptionsDir" ->
           [run |-> CheckedRun(
                       issue("makeDockerOptionsDir", <<>>),
                       "makeDockerOptionsDir",
                       makeDockerOptionsDir(
                           ExecuteOn(run.script, "makeDockerOptionsDir", 1))),
            inst |-> inst]
      [] run.pc = "Package" ->
           [run |-> [run EXCEPT
                        !.pkg = PackageCall(StrContainersBasic, "Install",
                                            "Provision"),
                        !.pc = "waitForLock"],
            inst |-> inst]
      [] run.pc = "waitForLock" ->
           LET n == run.pkg.attempts + 1
               e == ExecuteOn(run.script, "Package", n)
               tried == [issue("Package", run.pkg.command) EXCEPT
                            !.pkg.attempts = n]
           IN  [run |-> IF PackageWaitsForLock(e, n)
                        THEN [tried EXCEPT !.pkg.waits = @ + 1]
                        ELSE CheckedRun(tried, "Package",
                                        PackageReturn(waitForLock(e))),
                inst |-> inst]
      [] run.pc = "setRemoteAuthOptions" ->
           [run |-> AdvanceRun(run, "setRemoteAuthOptions"),
            inst |-> [inst EXCEPT
                         !.AuthOptions = setRemoteAuthOptions(@)]]
      [] run.pc = "ConfigureAuth" ->
           [run |-> CheckedRun(
                       issue("ConfigureAuth", <<>>), "ConfigureAuth",
                       ConfigureAuth(
                           ExecuteOn(run.script, "ConfigureAuth", 1))),
            inst |-> inst]
      [] run.pc = "configureSwarm" ->
           [run |-> IF SwarmRequested(run.args.swarmOptions)
                    THEN CheckedRun(
                             issue("configureSwarm", <<>>), "configureSwarm",
                             configureSwarm(
                                 ExecuteOn(run.script, "configureSwarm", 1)))
                    ELSE CheckedRun(run, "configureSwarm", Nil),
            inst |-> inst]
      [] run.pc = "Service" ->
           LET e == Service(ExecuteOn(run.script, "Service", 1))
               tried == [issue("Service", <<>>) EXCEPT !.err = e]
           IN  [run |-> IF e = Nil
                        THEN AdvanceRun(tried, "Service")
                        ELSE [tried EXCEPT !.pc = "return"],
                inst |-> inst]
      [] run.pc = "return" ->
           [run |-> IF run.err = Nil
                    THEN [run EXCEPT !.pc = "returned",
                                     !.result = ProvisionResult(run.err),
                                     !.state = "Done",
                                     !.visited = Append(@, "Done")]
                    ELSE [run EXCEPT !.pc = "returned",
                                     !.result = ProvisionResult(run.err)],
            inst |-> inst]

\* The positions at which a run has a step of Provision to take.
InProvision ==
    {ProvisionSequence[i] : i \in 1..Len(ProvisionSequence)}
    \cup {"waitForLock", "return"}

\* The caller of host h calls Provision on the instance its run selected.
HostProvision(h) ==
    /\ runs[h].pc = "call"
    /\ \E s \in SwarmInputs, a \in AuthInputs, script \in HostScripts :
          LET args == [swarmOptions |-> s, authOptions |-> a,
                       engineOptions |-> ZeroEngineOptions]
              called == ProvisionCall(runs[h], heap[runs[h].self], args,
                                      script)
          IN  /\ runs' = [runs EXCEPT ![h] = called.run]
              /\ heap' = [heap EXCEPT ![runs[h].self] = called.inst]
    /\ UNCHANGED <<process, registry, registered, lookup>>
    /\ UNCHANGED runVars

\* The run of host h takes its next step; the runs of other hosts may
\* take theirs before or after it.
HostStep(h) ==
    /\ runs[h].pc \in InProvision
    /\ LET taken == ProvisionStep(runs[h], heap[runs[h].self])
       IN  /\ runs' = [runs EXCEPT ![h] = taken.run]
           /\ heap' = [heap EXCEPT ![runs[h].self] = taken.inst]
    /\ UNCHANGED <<process, registry, registered, lookup>>
    /\ UNCHANGED runVars
(***************************************************************************)
(* The properties of the provisioning sequence.                            *)
(***************************************************************************)
\* The steps and states of a provisioning run, in their documented order.
OrderedSteps ==
    <<"SetHostname", "makeDockerOptionsDir", "Package",
      "setRemoteAuthOptions", "ConfigureAuth", "configureSwarm", "Service">>

OrderedStates ==
    <<"Init", "HostnameSet", "PackageDirReady", "BasePackageInstalled",
      "AuthPrepared", "AuthConfigured", "SwarmConfigured", "ServiceEnabled",
      "Done">>

IndexIn(seq, x) ==
    CHOOSE i \in 1..Len(seq) : seq[i] = x

\* The step a run is at: the one it is about to start or is executing.
AtStep(k) ==
    \/ pc = OrderedSteps[k]
    \/ k = 3 /\ pc = "waitForLock" /\ pkg.caller = "Provision"

\* How often the executor was handed a command of `step`.
TimesHanded(step) ==
    Cardinality({i \in 1..Len(issued) : issued[i].step = step})

\* The first step of the run the script fails, 0 when it fails none.
PackageFails ==
    stub.pkg.always \/ stub.pkg.locks >= RetryCeiling
    \/ stub.pkg.final = "error"

ScriptFails(k) ==
    CASE k = 3 -> PackageFails
      [] k = 4 -> FALSE
      [] k = 6 -> SwarmOptions.IsSwarm /\ "configureSwarm" \in stub.fails
      [] OTHER -> OrderedSteps[k] \in stub.fails

FirstFailing ==
    IF \E k \in 1..7 : ScriptFails(k)
    THEN CHOOSE k \in 1..7 : ScriptFails(k) /\ \A j \in 1..(k - 1) : ~ScriptFails(j)
    ELSE 0

ProvisionReturned ==
    entry = "Provision" /\ pc = "returned"

\* The order of C1: in every Provision run the steps are started in the order
\* SetHostname, makeDockerOptionsDir, Package, setRemoteAuthOptions,
\* ConfigureAuth, configureSwarm, Service: a run is at step k only when the
\* states it has been in are exactly the first k states, the executor is
\* handed the commands of the steps in that order (only the package command
\* more than once), and the state only ever moves to the next state.
C1_InOrder ==
    entry = "Provision" =>
        /\ \A k \in 1..7 : AtStep(k) => visited = SubSeq(OrderedStates, 1, k)
        /\ state = visited[Len(visited)]
        /\ \A i, j \in 1..Len(issued) :
              i < j =>
                 \/ IndexIn(OrderedSteps, issued[i].step)
                       < IndexIn(OrderedSteps, issued[j].step)
                 \/ issued[i].step = "Package" /\ issued[j].step = "Package"

\* C1, as a property of every step of a run: the order holds before and
\* after the step, and the state stays or moves to the next state, never
\* back and never past one.
C1_StrictStepOrder ==
    [][/\ C1_InOrder
       /\ C1_InOrder'
       /\ state' # state =>
             IndexIn(OrderedStates, state')
                = IndexIn(OrderedStates, state) + 1]_vars

C1_Witness ==
    /\ entry = "Provision"
    /\ state = "Done"
    /\ SwarmOptions.IsSwarm
    /\ TimesHanded("Package") = 3
    /\ Len(issued) = 8

\* C2: when a step of Provision fails, the run ends in the state it had
\* reached, no command of a later step is ever handed to the executor (when
\* only configureSwarm fails, Service never is), and what the completed
\* steps did stays: the states passed, the commands run, the rewritten auth
\* options.
C2_AbortsAtFailingStep ==
    (entry = "Provision" /\ pc # "idle" /\ FirstFailing # 0) =>
        /\ \A i \in 1..Len(issued) :
              IndexIn(OrderedSteps, issued[i].step) <= FirstFailing
        /\ state # "Done"
        /\ IndexIn(OrderedStates, state) <= FirstFailing
        /\ (stub.fails = {"configureSwarm"} /\ ~PackageFails) =>
              TimesHanded("Service") = 0
        /\ pc = "returned" =>
              /\ state = OrderedStates[FirstFailing]
              /\ visited = SubSeq(OrderedStates, 1, FirstFailing)
              /\ \A k \in 1..(FirstFailing - 1) :
                    k \notin {4, 6} => TimesHanded(OrderedSteps[k]) >= 1
              /\ TimesHanded(OrderedSteps[FirstFailing]) >= 1
              /\ FirstFailing > 4 =>
                    AuthOptions.CaCertRemotePath
                       = StrDockerOptionsDir \o StrCaPem

C2_Witness ==
    /\ ProvisionReturned
    /\ stub.fails = {"configureSwarm"}
    /\ FirstFailing = 6
    /\ state = "AuthConfigured"
    /\ TimesHanded("configureSwarm") = 1

\* C3: Provision returns nil exactly when no step failed, and otherwise
\* returns the very error the failing step's collaborator produced, the
\* Service step's included.
C3_ErrorUnchanged ==
    ProvisionReturned =>
        /\ result = Nil <=> FirstFailing = 0
        /\ result = Nil <=> state = "Done"
        /\ FirstFailing # 0 =>
              result = Execute(OrderedSteps[FirstFailing],
                               IF FirstFailing = 3 THEN pkg.attempts ELSE 1)

C3_Witness ==
    /\ ProvisionReturned
    /\ FirstFailing = 7
    /\ result = StepError("Service")

\* C4: against an executor that acknowledges every command, a Provision
\* run ends: it returns nil in state Done, having been in all nine states
\* in their order.
AcknowledgesAll ==
    entry = "Provision" /\ stub.fails = {} /\ stub.pkg = AckPackage

C4_AcknowledgedRunEndsDone ==
    AcknowledgesAll ~>
        (/\ pc = "returned"
         /\ result = Nil
         /\ state = "Done"
         /\ visited = OrderedStates)

C4_Witness ==
    /\ AcknowledgesAll
    /\ pc = "returned"
    /\ state = "Done"
    /\ Len(visited) = 9

(***************************************************************************)
(* The properties of the package operation.                                *)
(***************************************************************************)
\* The package operation has returned, and what it returned.
PackageDone ==
    pkg.attempts > 0 /\ pc # "waitForLock"

PackageResult ==
    IF pkg.caller = "Provision"
    THEN (IF state = "PackageDirReady" THEN result ELSE Nil)
    ELSE result

\* Every invocation of the package-manager command was handed the command
\* Package built.
SameCommandEachTime ==
    \A i \in 1..Len(issued) :
        issued[i].step = "Package" => issued[i].command = pkg.command

\* C5: when the executor answers the package-manager command with the
\* lock-contention signature k times in a row, k below the ceiling, and
\* then acknowledges it, the package operation returns nil and the executor
\* was handed the command exactly k + 1 times (three times for k = 2).
C5_RetriesUntilUnlocked ==
    (/\ PackageDone
     /\ ~stub.pkg.always
     /\ stub.pkg.locks < RetryCeiling
     /\ stub.pkg.final = "ok") =>
        /\ PackageResult = Nil
        /\ pkg.attempts = stub.pkg.locks + 1
        /\ TimesHanded("Package") = stub.pkg.locks + 1
        /\ pkg.waits = stub.pkg.locks
        /\ SameCommandEachTime

C5_Witness ==
    /\ PackageDone
    /\ ~stub.pkg.always
    /\ stub.pkg.locks = 2
    /\ stub.pkg.final = "ok"
    /\ TimesHanded("Package") = 3
    /\ PackageResult = Nil

\* C6: when the executor always answers the package-manager command with
\* the lock-contention signature, the package operation returns the last
\* lock error after exactly RetryCeiling invocations, and a Provision run
\* ends there: in state PackageDirReady, with the caller's auth options
\* and no later command handed to the executor.
C6_GivesUpAtCeiling ==
    (PackageDone /\ stub.pkg.always) =>
        /\ pkg.attempts = RetryCeiling
        /\ TimesHanded("Package") = RetryCeiling
        /\ PackageResult = LockError(RetryCeiling)
        /\ pc = "returned"
        /\ result = LockError(RetryCeiling)
        /\ pkg.caller = "Provision" =>
              /\ state = "PackageDirReady"
              /\ AuthOptions \in AuthInputs
              /\ AuthOptions.CaCertRemotePath
                    # StrDockerOptionsDir \o StrCaPem
              /\ issued[Len(issued)].step = "Package"

C6_Witness ==
    /\ PackageDone
    /\ stub.pkg.always
    /\ pkg.caller = "Provision"
    /\ pc = "returned"
    /\ result.kind = "lock"

\* C7: when the executor answers the package-manager command with an error
\* that is not the lock-contention signature, the package operation
\* returns that error after exactly one invocation, without a wait.
C7_OtherErrorNotRetried ==
    (/\ PackageDone
     /\ ~stub.pkg.always
     /\ stub.pkg.locks = 0
     /\ stub.pkg.final = "error") =>
        /\ pkg.attempts = 1
        /\ pkg.waits = 0
        /\ TimesHanded("Package") = 1
        /\ PackageResult = StepError("Package")
        /\ pc = "returned"
        /\ result = StepError("Package")

C7_Witness ==
    /\ PackageDone
    /\ entry = "Package"
    /\ stub.pkg.final = "error"
    /\ stub.pkg.locks = 0
    /\ result.kind = "error"
    /\ pkg.attempts = 1

\* A Package call has built its command.
PackageCalled ==
    pkg.action \in PackageActions

\* The fragment documented for each action that has one.
DocumentedFragment(action) ==
    CASE action = "Install" -> StrBundleAdd
      [] action = "Upgrade" -> StrBundleAdd
      [] action = "Purge" -> StrBundleRemove

\* The name the command is built with: the alias for "docker".
BundleName(name) ==
    IF name = StrDocker THEN StrContainersBasic ELSE name

\* C8: for every package name and each of Install, Upgrade and Purge, the
\* command Package builds and hands to the executor is
\* "swupd <fragment> <name> " with its trailing space, the fragment being
\* "bundle-add" for Install and Upgrade and "bundle-remove" for Purge, never
\* empty; Purge of "nginx" gives a command containing "bundle-remove nginx".
C8_CommandOfAction ==
    (PackageCalled /\ pkg.action \in {"Install", "Upgrade", "Purge"}) =>
        /\ DocumentedFragment(pkg.action) # <<>>
        /\ pkg.command = Concat(<<StrSwupd, SP, DocumentedFragment(pkg.action),
                                  SP, BundleName(pkg.name), SP>>)
        /\ HasSuffix(pkg.command, SP)
        /\ (pkg.action = "Purge" /\ pkg.name = StrNginx) =>
              Contains(pkg.command, StrBundleRemove \o SP \o StrNginx)
        /\ SameCommandEachTime

C8_Witness ==
    /\ PackageDone
    /\ pkg.action = "Purge"
    /\ pkg.name = StrNginx
    /\ issued[1].command = StrSwupd \o SP \o StrBundleRemove \o SP \o StrNginx \o SP

\* C9: for every package action, the command built for the name "docker"
\* names the bundle "containers-basic" and does not contain "docker"; any
\* other name is in the command unchanged; and the call leaves the fields
\* of the instance as they were.
C9_DockerAliased ==
    (PackageCalled /\ entry = "Package") =>
        /\ pkg.name = StrDocker =>
              /\ HasSuffix(pkg.command, SP \o StrContainersBasic \o SP)
              /\ ~Contains(pkg.command, StrDocker)
        /\ pkg.name # StrDocker =>
              HasSuffix(pkg.command, SP \o pkg.name \o SP)
        /\ SameCommandEachTime
        /\ AuthOptions = ZeroAuthOptions
        /\ EngineOptions = ZeroEngineOptions
        /\ SwarmOptions = ZeroSwarmOptions

C9_Witness ==
    /\ PackageDone
    /\ entry = "Package"
    /\ pkg.name = StrDocker
    /\ pkg.action = "Upgrade"
    /\ issued[1].command
          = StrSwupd \o SP \o StrBundleAdd \o SP \o StrContainersBasic \o SP

(***************************************************************************)
(* The properties of the generated daemon options.                         *)
(***************************************************************************)
\* The last GenerateDockerOptions call returned options.
OptionsReturned ==
    entry = "GenerateDockerOptions" /\ gen.calls > 0 /\ result = Nil

\* The start command of the text has the legacy subcommand after the
\* binary, or goes on with the first flag.
HasLegacyToken(text) ==
    HasPrefix(text, TmplHead \o StrDaemon \o TmplHost)

LacksLegacyToken(text) ==
    /\ HasPrefix(text, TmplHead \o TmplHost)
    /\ ~Contains(text, SP \o StrDaemon \o SP)

\* The version is lower than 1.12.0.
BelowThreshold(v) ==
    LET f == ParseVersion(v)
    IN  f[1] < 1 \/ (f[1] = 1 /\ f[2] < 12)

\* C10: the generated start command has the legacy token "daemon" exactly
\* when the reported runtime version is lower than 1.12.0: it has it for
\* 1.11.0 and lacks it for 1.12.0 and for 1.12.1.
C10_LegacyTokenBelowThreshold ==
    OptionsReturned =>
        LET text == gen.options.EngineOptions
        IN  /\ HasLegacyToken(text) <=> BelowThreshold(stub.version)
            /\ LacksLegacyToken(text) <=> ~BelowThreshold(stub.version)
            /\ stub.version = <<"1", ".", "1", "1", ".", "0">> =>
                  HasLegacyToken(text)
            /\ stub.version = <<"1", ".", "1", "2", ".", "0">> =>
                  LacksLegacyToken(text)
            /\ stub.version = <<"1", ".", "1", "2", ".", "1">> =>
                  LacksLegacyToken(text)

C10_Witness ==
    /\ OptionsReturned
    /\ stub.version = StrThreshold
    /\ LacksLegacyToken(gen.options.EngineOptions)
    /\ gen.options.EngineOptionsPath = StrDaemonOptionsFile

\* C11: successive GenerateDockerOptions calls on one instance with the
\* same port, runtime version, auth options and operator-supplied engine
\* options return the same text: a call that repeats the port of the call
\* before it returns the options that call returned.
C11_RegeneratedIdentical ==
    [][(/\ entry = "GenerateDockerOptions"
        /\ gen.calls > 0
        /\ gen'.calls = gen.calls + 1
        /\ gen'.port = gen.port
        /\ result = Nil
        /\ result' = Nil) =>
          gen'.options.EngineOptions = gen.options.EngineOptions]_vars

(***************************************************************************)
(* Reading the generated text back.                                        *)
(***************************************************************************)
\* The start command of the text: its fourth line, as the words between
\* its spaces.
StartCommandWords(text) ==
    Split(Split(text, "\n")[4], " ")

\* The words that follow each occurrence of the flag, in order.
RECURSIVE ValuesAfter(_, _)
ValuesAfter(words, flag) ==
    IF Len(words) < 2 THEN <<>>
    ELSE IF Head(words) = flag
         THEN <<words[2]>> \o ValuesAfter(Tail(Tail(words)), flag)
         ELSE ValuesAfter(Tail(words), flag)

StrHostTcp ==
    <<"-", "-", "h", "o", "s", "t", "=", "t", "c", "p", ":", "/", "/", "0",
      ".", "0", ".", "0", ".", "0", ":">>

StrLabelFlag ==
    <<"-", "-", "l", "a", "b", "e", "l">>

StrMirrorFlag ==
    <<"-", "-", "r", "e", "g", "i", "s", "t", "r", "y", "-", "m", "i", "r",
      "r", "o", "r">>

\* The port of the --host=tcp://0.0.0.0:<port> word.
ReadPort(text) ==
    LET words == StartCommandWords(text)
        i == CHOOSE j \in 1..Len(words) : HasPrefix(words[j], StrHostTcp)
    IN  Atoi(SubSeq(words[i], Len(StrHostTcp) + 1, Len(words[i])))

ReadLabels(text) ==
    ValuesAfter(StartCommandWords(text), StrLabelFlag)

ReadMirrors(text) ==
    ValuesAfter(StartCommandWords(text), StrMirrorFlag)

\* C12: the port, the label list and the registry-mirror list read back
\* from the rendered text are those of the context it was rendered from
\* (the instance's engine options, the provider label included), in order.
C12_RoundTrip ==
    OptionsReturned =>
        LET text == gen.options.EngineOptions
        IN  /\ ReadPort(text) = gen.port
            /\ ReadLabels(text) = EngineOptions.Labels
            /\ ReadMirrors(text) = EngineOptions.RegistryMirror

\* What does hold of the reading above: it recovers the port, the labels
\* and the mirrors of every context whose labels hold no space.
RoundTripWithoutSpaces ==
    (OptionsReturned
     /\ \A i \in 1..Len(EngineOptions.Labels) :
           ~Contains(EngineOptions.Labels[i], SP)) =>
        LET text == gen.options.EngineOptions
        IN  /\ ReadPort(text) = gen.port
            /\ ReadLabels(text) = EngineOptions.Labels
            /\ ReadMirrors(text) = EngineOptions.RegistryMirror

\* The context lacks a remote auth path the start command needs.
IncompleteContext ==
    \/ AuthOptions.CaCertRemotePath = <<>>
    \/ AuthOptions.ServerCertRemotePath = <<>>
    \/ AuthOptions.ServerKeyRemotePath = <<>>

\* C13: a GenerateDockerOptions call whose rendering fails (the context is
\* incomplete) returns an error and no options, never options with nil.
C13_RenderFailureReturned ==
    (entry = "GenerateDockerOptions" /\ gen.calls > 0 /\ IncompleteContext) =>
        /\ result # Nil
        /\ gen.options = NoOptions

(***************************************************************************)
(* Further properties of the provisioning sequence and of Package.         *)
(***************************************************************************)
\* C16: in one Provision run the executor is handed the command of each
\* step other than Package at most once, and the sequence is not started
\* again: no state is visited twice.
C16_FireOnce ==
    entry = "Provision" =>
        /\ \A s \in FireOnce : TimesHanded(s) <= 1
        /\ \A i, j \in 1..Len(visited) : i # j => visited[i] # visited[j]
        /\ ProvisionReturned =>
              \A k \in 1..7 :
                 (k < IndexIn(OrderedStates, state) /\ k \notin {3, 4, 6}) =>
                    TimesHanded(OrderedSteps[k]) = 1

C16_Witness ==
    /\ ProvisionReturned
    /\ result = StepError("Service")
    /\ \A s \in FireOnce : TimesHanded(s) = 1
    /\ TimesHanded("Package") = 2

\* The auth options with the three remote paths in the remote options
\* directory, the rest as the caller supplied it.
IsRewritten(a, supplied) ==
    /\ a.CaCertPath = supplied.CaCertPath
    /\ a.CaCertRemotePath = StrDockerOptionsDir \o StrCaPem
    /\ a.ServerCertRemotePath = StrDockerOptionsDir \o StrServerPem
    /\ a.ServerKeyRemotePath = StrDockerOptionsDir \o StrServerKeyPem

\* C17: the instance's auth options are the caller's in every state up to
\* BasePackageInstalled, also after an abort there; they are replaced by
\* the rewritten ones in the step to AuthPrepared and stay; ConfigureAuth
\* and configureSwarm are handed their commands with the rewritten ones.
C17_RewrittenAfterInstall ==
    [][(entry = "Provision" /\ pc # "idle") =>
          /\ IndexIn(OrderedStates, state') <= 4 =>
                /\ AuthOptions \in AuthInputs
                /\ AuthOptions' = AuthOptions
          /\ (state = "BasePackageInstalled" /\ state' = "AuthPrepared") =>
                IsRewritten(AuthOptions', AuthOptions)
          /\ IndexIn(OrderedStates, state) >= 5 =>
                /\ AuthOptions' = AuthOptions
                /\ \E a \in AuthInputs : IsRewritten(AuthOptions, a)
          /\ \A i \in 1..Len(issued') :
                issued'[i].step \in {"ConfigureAuth", "configureSwarm"} =>
                   /\ issued'[i].auth = AuthOptions'
                   /\ \E a \in AuthInputs : IsRewritten(issued'[i].auth, a)
                   /\ issued'[i].auth \notin AuthInputs]_vars

C17_Witness ==
    /\ ProvisionReturned
    /\ state = "Done"
    /\ TimesHanded("configureSwarm") = 1
    /\ issued[Len(issued) - 1].step = "configureSwarm"
    /\ issued[Len(issued) - 1].auth.CaCertRemotePath
          = StrDockerOptionsDir \o StrCaPem
    /\ issued[1].auth.CaCertRemotePath = <<"/", "r", "/", "c", "a">>

\* C18: for Remove the command Package builds has no action verb,
\* "swupd  <name> ", and Package still has the lock-retry executor run it:
\* the call returns only after the executor was handed that command.
C18_RemoveHasNoVerb ==
    (PackageCalled /\ pkg.action = "Remove") =>
        /\ pkg.command = Concat(<<StrSwupd, SP, SP, BundleName(pkg.name), SP>>)
        /\ pc = "waitForLock" \/ pc = "returned"
        /\ pc = "returned" =>
              /\ TimesHanded("Package") >= 1
              /\ TimesHanded("Package") = pkg.attempts
              /\ SameCommandEachTime

C18_Witness ==
    /\ PackageDone
    /\ pkg.action = "Remove"
    /\ pkg.name = StrNginx
    /\ result = Nil
    /\ issued[1].command = StrSwupd \o SP \o SP \o StrNginx \o SP

\* C19: a GenerateDockerOptions call that returns an error leaves the
\* engine options of the instance, the label list included, as they were.
C19_FailedCallChangesNothing ==
    [][(/\ entry = "GenerateDockerOptions"
        /\ gen'.calls = gen.calls + 1
        /\ result' # Nil) =>
          /\ EngineOptions' = EngineOptions
          /\ AuthOptions' = AuthOptions]_vars


(***************************************************************************)
(* The runs of several hosts and the registry.                             *)
(***************************************************************************)
\* The hosts whose run holds an instance.
Selected ==
    {h \in Hosts : runs[h].self # 0}

\* The hosts whose caller has called Provision.
Called ==
    {h \in Hosts : runs[h].pc \in InProvision \cup {"returned"}}

\* The run of host h alone in the process: its constructor call on an
\* empty heap, the same arguments and the same remote host, k steps later.
StartAlone(h) ==
    LET made == NewClearLinuxProvisioner(DriverOf(h), <<>>)
    IN  ProvisionCall([NoRun EXCEPT !.pc = "call", !.self = runs[h].self],
                      made.heap[made.ref], runs[h].args, runs[h].script)

RECURSIVE Alone(_, _)
Alone(h, k) ==
    IF k = 0
    THEN StartAlone(h)
    ELSE LET c == Alone(h, k - 1)
         IN  IF c.run.pc \in InProvision
             THEN ProvisionStep(c.run, c.inst)
             ELSE c

\* The run of host h and its instance are at a point of the run alone:
\* same steps taken in the same order, same commands, same fields, same
\* outcome.
AsAlone(h) ==
    \E k \in 0..(Len(ProvisionSequence) + RetryCeiling + 1) :
        Alone(h, k) = [run |-> runs[h], inst |-> heap[runs[h].self]]

\* The run of host g and the fields of its instance are as before the step.
Untouched(g) ==
    /\ runs'[g] = runs[g]
    /\ runs[g].self # 0 => heap'[runs[g].self] = heap[runs[g].self]

\* C14: when the Provision runs of different hosts are interleaved
\* arbitrarily, each on the instance its own constructor call produced,
\* the instances are distinct, a step of one run leaves the auth options,
\* engine options and daemon-options path of every other run's instance
\* (and that run) as they were, and each run's steps, commands and outcome
\* are those of the same run alone.
C14_RunsIsolated ==
    /\ [](/\ \A g, h \in Selected : g # h => runs[g].self # runs[h].self
          /\ \A h \in Called : AsAlone(h))
    /\ [][\A h \in Hosts :
             runs'[h] # runs[h] =>
               \A g \in Hosts \ {h} : Untouched(g)]_vars

\* Two runs are under way at once on different auth options, one of them
\* past the rewrite of its remote paths and one before it.
C14_Witness ==
    /\ runs["h1"].pc = "ConfigureAuth"
    /\ runs["h2"].pc = "waitForLock"
    /\ runs["h2"].pkg.waits = 1
    /\ runs["h1"].args.authOptions # runs["h2"].args.authOptions
    /\ heap[runs["h1"].self].AuthOptions
         = RemoteAuthOptions(runs["h1"].args.authOptions)
    /\ heap[runs["h2"].self].AuthOptions = runs["h2"].args.authOptions

\* How often Register was called with the identifier.
TimesRegistered(identifier) ==
    Cardinality({i \in 1..Len(registered) : registered[i] = identifier})

\* The constructor applied to driver d allocates an instance no run holds:
\* a ClearLinux strategy for d whose option fields hold their zero values.
MakesFresh(constructor, d) ==
    LET made == New(constructor, d, heap)
    IN  /\ made.ref \notin 1..Len(heap)
        /\ \A i \in 1..Len(heap) : made.heap[i] = heap[i]
        /\ made.heap[made.ref] = NewSystemdProvisioner("clear-linux-os", d)

\* C15: the ClearLinux strategy is registered exactly once, while the
\* process loads and before any Lookup or provisioning run; from then on a
\* Lookup of "ClearLinux" reports found and its constructor creates a fresh
\* ClearLinux instance for the given driver, and a Lookup of an identifier
\* that was never registered reports not found.
C15_RegisteredOnce ==
    /\ process = "loading" =>
          /\ TimesRegistered("ClearLinux") = 0
          /\ lookup = NoLookup
          /\ heap = <<>>
          /\ \A h \in Hosts : runs[h].pc = "new"
    /\ process = "main" => TimesRegistered("ClearLinux") = 1
    /\ lookup.id = "ClearLinux" =>
          /\ lookup.found
          /\ \A d \in Drivers : MakesFresh(lookup.New, d)
    /\ (lookup.id \in Identifiers /\ TimesRegistered(lookup.id) = 0) =>
          ~lookup.found
    /\ \A h \in Hosts : runs[h].pc # "unsupported"
    /\ \A h \in Selected :
          /\ heap[runs[h].self].OsReleaseID = "clear-linux-os"
          /\ heap[runs[h].self].Driver = DriverOf(h)

\* Both runs hold the instance the registered constructor made for their
\* driver, and the last Lookup was of an identifier never registered.
C15_Witness ==
    /\ Selected = Hosts
    /\ lookup.id = "clear-linux-os"
    /\ ~lookup.found
(***************************************************************************)
(* Specifications.                                                         *)
(***************************************************************************)
Next ==
    \/ CallProvision
    \/ ProvisionSetHostname
    \/ ProvisionMakeDockerOptionsDir
    \/ ProvisionPackage
    \/ CallPackage
    \/ WaitForLock
    \/ ProvisionSetRemoteAuthOptions
    \/ ProvisionConfigureAuth
    \/ ProvisionConfigureSwarm
    \/ ProvisionService
    \/ ProvisionReturn
    \/ CallGenerateDockerOptions

Spec ==
    Init /\ [][Next]_vars

\* A provisioning run alone: its call and its steps.
ProvisionInit ==
    Init /\ entry = "Provision"

ProvisionNext ==
    \/ CallProvision
    \/ ProvisionSetHostname
    \/ ProvisionMakeDockerOptionsDir
    \/ ProvisionPackage
    \/ WaitForLock
    \/ ProvisionSetRemoteAuthOptions
    \/ ProvisionConfigureAuth
    \/ ProvisionConfigureSwarm
    \/ ProvisionService
    \/ ProvisionReturn

\* The run is one sequential thread and the remote executor answers every
\* command (a timeout is answered as a failure): a step that can be taken
\* is taken.
FairSpec ==
    ProvisionInit /\ [][ProvisionNext]_vars /\ WF_vars(ProvisionNext)

\* Several hosts provisioned side by side in one process: the registry is
\* filled while the process loads, then each host's run selects its strategy
\* and runs Provision, the steps of different runs interleaved arbitrarily.
\* The single-run variables keep their initial values.
HostsInit ==
    /\ Init
    /\ entry = "Provision"
    /\ stub = [fails |-> {}, pkg |-> AckPackage, version |-> DefaultVersion,
               versionFails |-> FALSE]
    /\ driver = DriverOf("h1")

HostsNext ==
    \/ init
    \/ CallLookup
    \/ \E h \in Hosts : SelectStrategy(h)
    \/ \E h \in Hosts : HostProvision(h)
    \/ \E h \in Hosts : HostStep(h)

HostsSpec ==
    HostsInit /\ [][HostsNext]_vars

====
